---- MODULE Spec2Model ----
(***************************************************************************)
(* A model of php-8.2-update-helper.py: the line scanner (process_file),   *)
(* the inheritance resolver (process_extends) and the report builder       *)
(* (process_files).                                                        *)
(*                                                                         *)
(* A line of PHP text is a sequence of tokens.  A token is either a word   *)
(* (a maximal run of \w characters), a whitespace character, or one of the *)
(* punctuation tokens below.  Two word tokens are never adjacent.  The     *)
(* regular expressions of process_file are evaluated on that sequence.     *)
(* Python dicts are sequences of records with pairwise distinct keys, in   *)
(* insertion order.                                                        *)
(***************************************************************************)
EXTENDS Integers, Sequences, FiniteSets, TLC

VARIABLES
  pc,          \* where the program is: "files", "lines", "extends", "advance", "report", "done"
  text,        \* text[f]: the lines of file f read so far (lines[0..nr] of process_file)
  file,        \* process_file: the PhpFile being built
  current_class, \* process_file: name of the class record the cursor is on
  files,       \* process_files: the list of PhpFile records
  all_external_used_properties, \* process_files: set of names
  result,      \* process_files: the report lines emitted so far
  mapping,     \* process_extends: class name -> <<file index, class index>>
  php_class,   \* process_extends: <<file index, class index>> of the two for loops
  parent_class, \* process_extends: <<file index, class index>>, or None
  hist         \* history: the value of files at each entry to and return from process_extends

vars == <<pc, text, file, current_class, files, all_external_used_properties,
          result, mapping, php_class, parent_class, hist>>

----------------------------------------------------------------------------
(* Bounds of the model *)

MaxLines == 5
MaxFiles == 2
MaxScanLines == 2
MaxClasses == 2
MaxNamed == 3

----------------------------------------------------------------------------
(* Tokens *)

None == <<>>
EOL == "<eol>"
SP == " "
TAB == "\t"
DQ == "\""
Whitespace == {SP, TAB}
NonWord == Whitespace \cup {"$", "->", "=", "==", "//", DQ, "{", "}", "(", ")", ";", "+", EOL}

IsWord(t) == t \notin NonWord
IsWs(t) == t \in Whitespace

At(l, i) == IF i \in 1..Len(l) THEN l[i] ELSE EOL

\* the first position >= i that holds no whitespace (\s* consumed greedily)
SkipWs(l, i) ==
  LET rest == {j \in i..Len(l) : ~IsWs(l[j])}
  IN IF rest = {} THEN Len(l) + 1 ELSE CHOOSE j \in rest : \A k \in rest : j <= k

Min(S) == CHOOSE m \in S : \A k \in S : m <= k

----------------------------------------------------------------------------
(* The regular expressions of process_file *)

\* (mutant) the line is not stripped before the test
IsCommentNoStrip(l) == At(l, 1) = "//"

\* line.strip().startswith("//")
IsComment(l) == At(l, SkipWs(l, 1)) = "//"

\* class_re = \bclass\s+(\w+) : the positions where a match starts
class_at(l) ==
  {i \in 1..Len(l) : /\ l[i] = "class"
                     /\ IsWs(At(l, i + 1))
                     /\ IsWord(At(l, SkipWs(l, i + 1)))}
class_m(l) == class_at(l) # {}
class_group1(l) == At(l, SkipWs(l, Min(class_at(l)) + 1))

\* extends_re = extends\s+(\w+)
extends_at(l) ==
  {i \in 1..Len(l) : /\ l[i] = "extends"
                     /\ IsWs(At(l, i + 1))
                     /\ IsWord(At(l, SkipWs(l, i + 1)))}
extends_m(l) == extends_at(l) # {}
extends_group1(l) == At(l, SkipWs(l, Min(extends_at(l)) + 1))

\* member_assign_re = \$this\s*->\s*(\w+)\s*=
member_assign_name(l, i) == SkipWs(l, SkipWs(l, i + 2) + 1)
member_assign_at(l) ==
  {i \in 1..Len(l) : /\ l[i] = "$"
                     /\ At(l, i + 1) = "this"
                     /\ At(l, SkipWs(l, i + 2)) = "->"
                     /\ IsWord(At(l, member_assign_name(l, i)))
                     /\ At(l, SkipWs(l, member_assign_name(l, i) + 1)) \in {"=", "=="}}
member_assign_m(l) == member_assign_at(l) # {}
member_assign_group1(l) == At(l, member_assign_name(l, Min(member_assign_at(l))))

\* property_re = ^\s*(private|protected|public|var) \$(\w+) , matched at the start
Visibilities == {"private", "protected", "public", "var"}
property_m(l) ==
  LET i == SkipWs(l, 1)
  IN /\ At(l, i) \in Visibilities
     /\ At(l, i + 1) = SP
     /\ At(l, i + 2) = "$"
     /\ IsWord(At(l, i + 3))
property_group1(l) == At(l, SkipWs(l, 1))
property_group2(l) == At(l, SkipWs(l, 1) + 3)

\* global_member_usage_re = (\w+)\s*->\s*(\w+)
usage_name(l, i) == SkipWs(l, SkipWs(l, i + 1) + 1)
global_member_usage_at(l) ==
  {i \in 1..Len(l) : /\ IsWord(l[i])
                     /\ At(l, SkipWs(l, i + 1)) = "->"
                     /\ IsWord(At(l, usage_name(l, i)))}
global_member_usage_m(l) == global_member_usage_at(l) # {}
global_member_usage_group1(l) == l[Min(global_member_usage_at(l))]
global_member_usage_group2(l) == At(l, usage_name(l, Min(global_member_usage_at(l))))

\* deprecated_string_interpolation_re = ".*?\$\{
deprecated_string_interpolation_m(l) ==
  \E i \in 1..Len(l) : \E j \in (i + 1)..Len(l) :
     l[i] = DQ /\ l[j] = "$" /\ At(l, j + 1) = "{"

\* deprecated_functions_re = \b(utf8_encode|utf8_decode)\b
deprecated_functions_m(l) ==
  \E i \in 1..Len(l) : l[i] \in {"utf8_encode", "utf8_decode"}

----------------------------------------------------------------------------
(* Python dicts, as sequences of records with a key field *)

Keys(d) == {d[i].name : i \in 1..Len(d)}
IndexOf(d, k) == CHOOSE i \in 1..Len(d) : d[i].name = k
Get(d, k) == d[IndexOf(d, k)]
\* d[k] = v : a present key keeps its place, a new key is appended
Put(d, v) ==
  IF v.name \in Keys(d) THEN [d EXCEPT ![IndexOf(d, v.name)] = v] ELSE Append(d, v)
\* del d[k]
Del(d, k) == SelectSeq(d, LAMBDA e : e.name # k)

----------------------------------------------------------------------------
(* The records *)

PhpClass(name, line_nr) ==
  [name |-> name, line_nr |-> line_nr, properties |-> <<>>,
   dynamic_properties |-> <<>>, extends |-> "", external_used_properties |-> {}]

DeclaredProperty(visibility, name, line_nr) ==
  [visibility |-> visibility, name |-> name, line_nr |-> line_nr]

DynamicProperty(name, line_nr) == [name |-> name, line_nr |-> line_nr]

DeprecatedFeature(type, line_nr, line) == [type |-> type, line_nr |-> line_nr, line |-> line]

PhpFile(path) ==
  [path |-> path, classes |-> <<PhpClass("", 0)>>, deprecated_features |-> <<>>]

NoFile == [path |-> 0, classes |-> <<>>, deprecated_features |-> <<>>]

----------------------------------------------------------------------------
(* process_file: the body of the loop over the lines *)

CurrentIndex(f, cur) == IndexOf(f.classes, cur)

\* lines 74-79: a class declaration starts a new record and moves the cursor
ClassBranch(f, nr, l) ==
  LET c == PhpClass(class_group1(l), nr)
      d == IF extends_m(l) THEN [c EXCEPT !.extends = extends_group1(l)] ELSE c
  IN [f EXCEPT !.classes = Put(@, d)]

\* lines 80-82: a declared property of the cursor class, the last declaration wins
PropertyBranch(f, cur, nr, l) ==
  LET p == DeclaredProperty(property_group1(l), property_group2(l), nr)
  IN [f EXCEPT !.classes[CurrentIndex(f, cur)].properties = Put(@, p)]

\* (mutant) an assignment to a known dynamic property records its line again
AssignBranchLastLine(f, cur, nr, l) ==
  LET member_name == member_assign_group1(l)
      c == f.classes[CurrentIndex(f, cur)]
  IN IF member_name \notin Keys(c.properties)
     THEN [f EXCEPT !.classes[CurrentIndex(f, cur)].dynamic_properties =
                       Put(@, DynamicProperty(member_name, nr))]
     ELSE f

\* lines 84-87: $this->name = ... records a dynamic property unless the name is known
AssignBranch(f, cur, nr, l) ==
  LET member_name == member_assign_group1(l)
      c == f.classes[CurrentIndex(f, cur)]
  IN IF member_name \notin Keys(c.properties) /\ member_name \notin Keys(c.dynamic_properties)
     THEN [f EXCEPT !.classes[CurrentIndex(f, cur)].dynamic_properties =
                       Append(@, DynamicProperty(member_name, nr))]
     ELSE f

\* lines 88-92: the first member access of the line, when its receiver is not "this"
UsageBranch(f, cur, l) ==
  IF global_member_usage_group1(l) # "this"
  THEN [f EXCEPT !.classes[CurrentIndex(f, cur)].external_used_properties =
                    @ \cup {global_member_usage_group2(l)}]
  ELSE f

\* lines 74-92: the if / elif chain
Classify(f, cur, nr, l) ==
  IF class_m(l) THEN ClassBranch(f, nr, l)
  ELSE IF property_m(l) THEN PropertyBranch(f, cur, nr, l)
  ELSE IF member_assign_m(l) THEN AssignBranch(f, cur, nr, l)
  ELSE IF global_member_usage_m(l) THEN UsageBranch(f, cur, l)
  ELSE f

Cursor(cur, l) == IF class_m(l) THEN class_group1(l) ELSE cur

\* (mutant) the second test is an elif of the first
AddDeprecatedElif(d, nr, l) ==
  IF deprecated_string_interpolation_m(l)
  THEN Append(d, DeprecatedFeature("string interpolation", nr, l))
  ELSE IF deprecated_functions_m(l)
  THEN Append(d, DeprecatedFeature("function", nr, l))
  ELSE d

\* lines 94-97: the two deprecated-feature tests, each on its own
AddDeprecated(d, nr, l) ==
  LET d1 == IF deprecated_string_interpolation_m(l)
            THEN Append(d, DeprecatedFeature("string interpolation", nr, l)) ELSE d
  IN IF deprecated_functions_m(l)
     THEN Append(d1, DeprecatedFeature("function", nr, l)) ELSE d1

\* lines 65-97: one iteration of the loop, on line number nr (from 0)
LoopBody(f, cur, nr, l) ==
  IF IsComment(l) THEN [file |-> f, current_class |-> cur]
  ELSE LET g == Classify(f, cur, nr, l)
       IN [file |-> [g EXCEPT !.deprecated_features = AddDeprecated(@, nr, l)],
           current_class |-> Cursor(cur, l)]

\* PhpFile.all_external_used_properties
FileExternalUsed(f) ==
  UNION {f.classes[i].external_used_properties : i \in 1..Len(f.classes)}

\* lines 65-97: the loop over the lines, from line number nr on
RECURSIVE ScanLines(_, _, _, _)
ScanLines(f, cur, nr, lines) ==
  IF lines = <<>> THEN f
  ELSE LET r == LoopBody(f, cur, nr, Head(lines))
       IN ScanLines(r.file, r.current_class, nr + 1, Tail(lines))

\* lines 49-101
process_file(path, lines) == ScanLines(PhpFile(path), "", 0, lines)

----------------------------------------------------------------------------
(* process_files, first loop: lines 127-137 *)

RECURSIVE SumLen(_)
SumLen(t) == IF t = <<>> THEN 0 ELSE Len(Head(t)) + SumLen(Tail(t))

Blank == [kind |-> "blank"]

DeprecatedLine(d) ==
  [kind |-> "deprecated", line |-> d.line_nr + 1, type |-> d.type, text |-> d.line]

DeprecatedBlock(f) ==
  IF f.deprecated_features = <<>> THEN <<>>
  ELSE <<[kind |-> "path", path |-> f.path]>>
       \o [i \in 1..Len(f.deprecated_features) |-> DeprecatedLine(f.deprecated_features[i])]
       \o <<Blank>>

\* lines 127-128, 50-63: the next file is opened
StartFile(maxFiles) ==
  /\ pc = "files"
  /\ Len(files) < maxFiles
  /\ file' = PhpFile(Len(files) + 1)
  /\ current_class' = ""
  /\ text' = Append(text, <<>>)
  /\ pc' = "lines"
  /\ UNCHANGED <<files, all_external_used_properties, result, mapping, php_class,
                 parent_class, hist>>

\* lines 65-97: the next line of the file is read and scanned
ProcessLine(l, maxLines) ==
  /\ pc = "lines"
  /\ SumLen(text) < maxLines
  /\ LET nr == Len(text[Len(text)])
         r == LoopBody(file, current_class, nr, l)
     IN /\ file' = r.file
        /\ current_class' = r.current_class
        /\ text' = [text EXCEPT ![Len(text)] = Append(@, l)]
  /\ UNCHANGED <<pc, files, all_external_used_properties, result, mapping, php_class,
                 parent_class, hist>>

\* lines 101, 129-137: the file is returned, kept, and its deprecated features reported
EndFile ==
  /\ pc = "lines"
  /\ files' = Append(files, file)
  /\ all_external_used_properties' = all_external_used_properties \cup FileExternalUsed(file)
  /\ result' = result \o DeprecatedBlock(file)
  /\ file' = NoFile
  /\ current_class' = ""
  /\ pc' = "files"
  /\ UNCHANGED <<text, mapping, php_class, parent_class, hist>>

----------------------------------------------------------------------------
(* process_extends: lines 103-121 *)

\* the classes in the order of the two for loops, as <<file index, class index>>
RECURSIVE AllClasses(_, _)
AllClasses(fs, f) ==
  IF f > Len(fs) THEN <<>>
  ELSE [c \in 1..Len(fs[f].classes) |-> <<f, c>>] \o AllClasses(fs, f + 1)

ClassAt(fs, p) == fs[p[1]].classes[p[2]]

\* (mutant) a name already in the mapping keeps its first class
MapPutIfAbsent(m, k, v) ==
  IF k \in DOMAIN m THEN m ELSE [x \in (DOMAIN m) \cup {k} |-> IF x = k THEN v ELSE m[x]]

MapPut(m, k, v) == [x \in (DOMAIN m) \cup {k} |-> IF x = k THEN v ELSE m[x]]
MapPop(m, k) == [x \in (DOMAIN m) \ {k} |-> m[x]]
MapGet(m, k) == IF k \in DOMAIN m THEN m[k] ELSE None

\* lines 104-107: every class of every file, a later one replacing an earlier one
RECURSIVE FillMapping(_, _, _)
FillMapping(m, fs, ps) ==
  IF ps = <<>> THEN m
  ELSE FillMapping(MapPut(m, ClassAt(fs, Head(ps)).name, Head(ps)), fs, Tail(ps))

\* lines 104-109
BuildMapping(fs) == MapPop(FillMapping(<<>>, fs, AllClasses(fs, 1)), "")

\* (mutant) the keys are walked by index while entries are deleted, so the entry
\* after a deleted one is skipped
RECURSIVE SkipIter(_, _, _)
SkipIter(d, i, props) ==
  IF i > Len(d) THEN d
  ELSE IF d[i].name \in Keys(props) THEN SkipIter(Del(d, d[i].name), i + 1, props)
  ELSE SkipIter(d, i + 1, props)
RemoveDeclaredSkipping(dyn, props) == SkipIter(dyn, 1, props)

\* (mutant) the loop over the keys is left after the first deletion
RemoveFirstDeclared(dyn, props) ==
  LET hit == {i \in 1..Len(dyn) : dyn[i].name \in Keys(props)}
  IN IF hit = {} THEN dyn ELSE Del(dyn, dyn[Min(hit)].name)

\* lines 118-120: the dynamic properties left once those the parent declares are deleted
RemoveDeclared(dyn, props) == SelectSeq(dyn, LAMBDA e : e.name \notin Keys(props))

\* the class after p in the two for loops, None after the last
NextClass(fs, p) ==
  IF p[2] < Len(fs[p[1]].classes) THEN <<p[1], p[2] + 1>>
  ELSE IF p[1] < Len(fs) THEN <<p[1] + 1, 1>>
  ELSE None

\* lines 103-114: the call, the mapping and the first class of the loops
CallExtends(at) ==
  /\ pc = at
  /\ mapping' = BuildMapping(files)
  /\ IF files = <<>>
     THEN /\ hist' = hist \o <<files, files>>
          /\ pc' = "report"
          /\ UNCHANGED <<php_class, parent_class>>
     ELSE /\ hist' = Append(hist, files)
          /\ pc' = "extends"
          /\ php_class' = <<1, 1>>
          /\ parent_class' = MapGet(mapping', ClassAt(files, <<1, 1>>).extends)
  /\ UNCHANGED <<text, file, current_class, files, all_external_used_properties, result>>

\* lines 115-120: the while test holds; the body deletes what the parent declares
ExtendsBody ==
  /\ pc = "extends"
  /\ parent_class # None
  /\ files' = [files EXCEPT ![php_class[1]].classes[php_class[2]].dynamic_properties =
                 RemoveDeclared(@, ClassAt(files, parent_class).properties)]
  /\ pc' = "advance"
  /\ UNCHANGED <<text, file, current_class, all_external_used_properties, result,
                 mapping, php_class, parent_class, hist>>

\* line 121: the walk moves to the parent's parent, and back to the while test
ExtendsAdvance ==
  /\ pc = "advance"
  /\ parent_class' = MapGet(mapping, ClassAt(files, parent_class).extends)
  /\ pc' = "extends"
  /\ UNCHANGED <<text, file, current_class, files, all_external_used_properties, result,
                 mapping, php_class, hist>>

\* lines 111-115: the while loop is left; the next class, or the return
ExtendsFor ==
  /\ pc = "extends"
  /\ parent_class = None
  /\ LET n == NextClass(files, php_class)
     IN IF n = None
        THEN /\ pc' = "report"
             /\ hist' = Append(hist, files)
             /\ UNCHANGED <<php_class, parent_class>>
        ELSE /\ php_class' = n
             /\ parent_class' = MapGet(mapping, ClassAt(files, n).extends)
             /\ UNCHANGED <<pc, hist>>
  /\ UNCHANGED <<text, file, current_class, files, all_external_used_properties, result,
                 mapping>>

----------------------------------------------------------------------------
(* process_files, second loop: lines 141-163 *)

\* PhpClass.get_declaration
get_declaration(c) ==
  IF c.extends # "" THEN <<"class", c.name, "extends", c.extends>> ELSE <<"class", c.name>>

\* PhpFile.get_classes_with_dynamic_properties
get_classes_with_dynamic_properties(f) ==
  SelectSeq(f.classes, LAMBDA c : c.dynamic_properties # <<>>)

\* lines 155-157
Visibility(name, external) == IF name \in external THEN "public" ELSE "private"

\* lines 148-160
ClassBlock(f, c, external) ==
  <<[kind |-> "header", declaration |-> get_declaration(c), path |-> f.path,
     line |-> c.line_nr + 1]>>
  \o [i \in 1..Len(c.dynamic_properties) |->
        [kind |-> "dynamic", line |-> c.dynamic_properties[i].line_nr + 1,
         name |-> c.dynamic_properties[i].name]]
  \o <<Blank>>
  \o [i \in 1..Len(c.dynamic_properties) |->
        [kind |-> "suggest",
         visibility |-> Visibility(c.dynamic_properties[i].name, external),
         name |-> c.dynamic_properties[i].name]]
  \o <<Blank>>

RECURSIVE ClassBlocks(_, _, _)
ClassBlocks(f, cs, external) ==
  IF cs = <<>> THEN <<>>
  ELSE ClassBlock(f, Head(cs), external) \o ClassBlocks(f, Tail(cs), external)

\* lines 142-161
FileBlock(f, external) ==
  LET dyn_props == get_classes_with_dynamic_properties(f)
  IN IF Len(dyn_props) = 0 THEN <<>>
     ELSE ClassBlocks(f, dyn_props, external) \o <<Blank>>

RECURSIVE FileBlocks(_, _)
FileBlocks(fs, external) ==
  IF fs = <<>> THEN <<>>
  ELSE FileBlock(Head(fs), external) \o FileBlocks(Tail(fs), external)

\* lines 141-163
Report ==
  /\ pc = "report"
  /\ result' = result \o FileBlocks(files, all_external_used_properties)
  /\ pc' = "done"
  /\ UNCHANGED <<text, file, current_class, files, all_external_used_properties,
                 mapping, php_class, parent_class, hist>>

----------------------------------------------------------------------------
(* Input lines *)

ScanPool ==
  { <<TAB, "//", SP, "class", SP, "A", SP, "{">>,
    <<"//", SP, "$", "this", "->", "x", SP, "=", SP, "utf8_encode", "(", DQ, "$", "{", "s", "}", DQ, ")", ";">>,
    <<"//", "$", "o", "->", "y", ";">>,
    <<"class", SP, "A", SP, "{">>,
    <<"class", SP, "B", SP, "extends", SP, "A", SP, "{", SP, "utf8_decode", "(", "$", "s", ")", ";">>,
    <<TAB, "private", SP, "$", "x", ";">>,
    <<"public", SP, "$", "y", SP, "=", SP, "utf8_encode", "(", DQ, "$", "{", "s", "}", DQ, ")", ";">>,
    <<"$", "this", "->", "x", SP, "=", SP, "1", ";">>,
    <<"$", "this", SP, "->", SP, "y", "=", DQ, "$", "{", "s", "}", DQ, ";">>,
    <<"$", "this", "->", "y", SP, "=", SP, "utf8_encode", "(", "$", "o", "->", "x", ")", ";">>,
    <<"$", "o", "->", "x", ";">>,
    <<"return", SP, "$", "this", "->", "x", SP, "+", SP, "$", "o", "->", "y", ";">>,
    <<"echo", SP, DQ, "$", "{", "s", "}", DQ, SP, "+", SP, "$", "o", SP, "->", SP, "y", ";">>,
    <<"echo", SP, "utf8_decode", "(", DQ, "$", "{", "s", "}", DQ, ")", ";">>,
    <<"echo", SP, DQ, "hi", DQ, ";">>,
    <<"$", "this", "->", "x", ";">>,
    <<"$", "o", "->", "x", SP, "+", SP, "$", "o", "->", "y", ";">> }

----------------------------------------------------------------------------
(* The scanner on one file *)

Init ==
  /\ pc = "files"
  /\ text = <<>>
  /\ file = NoFile
  /\ current_class = ""
  /\ files = <<>>
  /\ all_external_used_properties = {}
  /\ result = <<>>
  /\ mapping = <<>>
  /\ php_class = None
  /\ parent_class = None
  /\ hist = <<>>

ResolverPool ==
  { <<"class", SP, "A">>,
    <<"class", SP, "B", SP, "extends", SP, "A">>,
    <<"class", SP, "A", SP, "extends", SP, "A">>,
    <<"private", SP, "$", "x", ";">>,
    <<"$", "this", "->", "x", "=", "1", ";">> }

NextScan ==
  \/ StartFile(1)
  \/ \E l \in ScanPool : ProcessLine(l, MaxScanLines)
  \/ EndFile

SpecScan == Init /\ [][NextScan]_vars

----------------------------------------------------------------------------
(* The whole program: process_files *)

Next ==
  \/ StartFile(MaxFiles)
  \/ \E l \in ResolverPool : ProcessLine(l, MaxLines)
  \/ EndFile
  \/ CallExtends("files")
  \/ ExtendsBody
  \/ ExtendsAdvance
  \/ ExtendsFor
  \/ Report

Spec == Init /\ [][Next]_vars

\* the program is sequential: a step that can be taken is taken
FairSpec == Spec /\ WF_vars(Next)

----------------------------------------------------------------------------
(* process_extends on its own, called twice in a row.  The input is a whole  *)
(* tree of files, made of class sections: a class declaration line and the   *)
(* member lines that follow it.  The state before the first call is the one  *)
(* the first loop of process_files leaves for that tree.                     *)

DeclX == <<"private", SP, "$", "x", ";">>
DeclY == <<"var", SP, "$", "y", ";">>
AssignX == <<"$", "this", "->", "x", "=", "1", ";">>
AssignY == <<"$", "this", "->", "y", SP, "=", SP, "2", ";">>
AssignYDep == <<"$", "this", "->", "y", SP, "=", SP, "utf8_encode", "(", "$", "o", "->", "x", ")", ";">>
UseY == <<"echo", SP, "$", "o", "->", "y", ";">>

Sections(headers, bodies) == {h \o b : h \in headers, b \in bodies}

TwiceSections ==
  Sections({ <<<<"class", SP, "A">>>>,
             <<<<"class", SP, "B", SP, "extends", SP, "A">>>>,
             <<<<"class", SP, "C", SP, "extends", SP, "B">>>>,
             <<<<"class", SP, "A", SP, "extends", SP, "A">>>> },
           { <<>>, <<DeclX>>, <<AssignX>>, <<DeclX, DeclY>>, <<AssignX, AssignY>>,
             <<AssignX, DeclX>> })

\* a section without a class line is file-level code, or more lines of the class before
ReportSections ==
  Sections({ <<>>,
             <<<<"class", SP, "A">>>>,
             <<<<"class", SP, "B", SP, "extends", SP, "A">>>> },
           { <<>>, <<DeclX>>, <<AssignX>>, <<UseY>>, <<AssignYDep, AssignX>>,
             <<AssignX, AssignY, AssignX>>, <<AssignYDep, AssignX, AssignY>> })

\* the trees of at most n sections; a section continues the last file or opens a new one
RECURSIVE Trees(_, _)
Trees(n, sections) ==
  IF n = 0 THEN {<<>>}
  ELSE LET prev == Trees(n - 1, sections)
       IN prev \cup {Append(t, s) : t \in prev, s \in sections}
               \cup {[t EXCEPT ![Len(t)] = @ \o s] : t \in prev \ {<<>>}, s \in sections}

\* lines 127-130: the list of files after the first loop of process_files
ScannedFiles(t) == [i \in 1..Len(t) |-> process_file(i, t[i])]

RECURSIVE DeprecatedBlocks(_)
DeprecatedBlocks(fs) ==
  IF fs = <<>> THEN <<>> ELSE DeprecatedBlock(Head(fs)) \o DeprecatedBlocks(Tail(fs))

\* the state after the first loop of process_files on the tree t
AfterFirstLoop(t) ==
  /\ pc = "files"
  /\ text = t
  /\ file = NoFile
  /\ current_class = ""
  /\ files = ScannedFiles(text)
  /\ all_external_used_properties = UNION {FileExternalUsed(files[i]) : i \in 1..Len(files)}
  /\ result = DeprecatedBlocks(files)
  /\ mapping = <<>>
  /\ php_class = None
  /\ parent_class = None
  /\ hist = <<>>

InitTwice == \E t \in Trees(MaxClasses, TwiceSections) : AfterFirstLoop(t)

CallExtendsAgain == Len(hist) = 2 /\ CallExtends("report")

NextTwice ==
  \/ Len(hist) = 0 /\ CallExtends("files")
  \/ ExtendsBody
  \/ ExtendsAdvance
  \/ ExtendsFor
  \/ CallExtendsAgain

SpecTwice == InitTwice /\ [][NextTwice]_vars

----------------------------------------------------------------------------
(* process_files from the end of its first loop on: process_extends and the   *)
(* second loop, on trees that exercise the report                             *)

InitReport == \E t \in Trees(MaxClasses, ReportSections) : AfterFirstLoop(t)

NextReport ==
  \/ CallExtends("files")
  \/ ExtendsBody
  \/ ExtendsAdvance
  \/ ExtendsFor
  \/ Report

SpecReport == InitReport /\ [][NextReport]_vars

----------------------------------------------------------------------------
(* process_extends, called once, on trees where one class name may be given  *)
(* to several classes                                                        *)

NamedSections ==
  Sections({ <<<<"class", SP, "A">>>>,
             <<<<"class", SP, "B", SP, "extends", SP, "A">>>> },
           { <<>>, <<DeclX>>, <<AssignX>> })

InitNamed == \E t \in Trees(MaxNamed, NamedSections) : AfterFirstLoop(t)

NextNamed ==
  \/ CallExtends("files")
  \/ ExtendsBody
  \/ ExtendsAdvance
  \/ ExtendsFor

SpecNamed == InitNamed /\ [][NextNamed]_vars

----------------------------------------------------------------------------
(* The scanner, line by line (SpecScan) *)

\* a step of the loop of process_file: one more line of the current file was read
LineScanned == pc = "lines" /\ pc' = "lines" /\ text' # text
LastLine(t) == t[Len(t)][Len(t[Len(t)])]
HasLine(t) == t # <<>> /\ t[Len(t)] # <<>>

\* the names a line reaches through a receiver other than "this"
ExternalNames(l) ==
  {At(l, usage_name(l, i)) : i \in {j \in global_member_usage_at(l) : l[j] # "this"}}

\* the content of the line, leading blanks and tabs aside, starts with "//"
TrimmedStartsWithSlashes(l) ==
  \E k \in 1..Len(l) : l[k] = "//" /\ \A j \in 1..(k - 1) : l[j] \in {SP, TAB}

CountType(d, type) == Cardinality({i \in 1..Len(d) : d[i].type = type})

\* C6: a line whose trimmed content starts with "//" leaves the whole scan state
\* unchanged: no class record, no cursor move, no declared, dynamic or externally
\* accessed name, no deprecated-feature finding, whatever the line contains.
C6_CommentLeavesStateUnchanged ==
  [][LineScanned /\ TrimmedStartsWithSlashes(LastLine(text'))
       => UNCHANGED <<file, current_class, files, all_external_used_properties, result>>]_vars

\* an indented comment line that holds a class declaration was read after a line with
\* a deprecated call, and the file still has only its placeholder record and that
\* one finding
C6_Witness ==
  /\ pc = "lines" /\ HasLine(text)
  /\ TrimmedStartsWithSlashes(LastLine(text))
  /\ At(LastLine(text), 1) # "//"
  /\ class_m(LastLine(text))
  /\ Len(text[1]) = 2
  /\ deprecated_functions_m(text[1][1])
  /\ Len(file.classes) = 1
  /\ Len(file.deprecated_features) = 1

\* C7: a scanned line appends exactly one "function" finding when it calls utf8_encode
\* or utf8_decode, exactly one "string interpolation" finding when it holds the legacy
\* interpolation, both when it holds both, none otherwise, however it was classified.
C7_DeprecatedFindingsPerLine ==
  [][LineScanned /\ ~IsComment(LastLine(text'))
       => LET l == LastLine(text')
              old == file.deprecated_features
              all == file'.deprecated_features
              new == SubSeq(all, Len(old) + 1, Len(all))
              fn == IF deprecated_functions_m(l) THEN 1 ELSE 0
              si == IF deprecated_string_interpolation_m(l) THEN 1 ELSE 0
          IN /\ Len(all) = Len(old) + fn + si
             /\ SubSeq(all, 1, Len(old)) = old
             /\ CountType(new, "function") = fn
             /\ CountType(new, "string interpolation") = si
             /\ \A i \in 1..Len(new) :
                  new[i].line = l /\ new[i].line_nr = Len(text[Len(text)])]_vars

\* a property declaration line that holds both patterns was read and gave two findings
C7_Witness ==
  /\ pc = "lines" /\ HasLine(text)
  /\ property_m(LastLine(text))
  /\ deprecated_functions_m(LastLine(text))
  /\ deprecated_string_interpolation_m(LastLine(text))
  /\ Len(text[1]) = 1
  /\ Len(file.deprecated_features) = 2
  /\ file.deprecated_features[1].type = "string interpolation"
  /\ file.deprecated_features[2].type = "function"

\* C8: on a scanned line that is no class declaration, no property declaration and no
\* $this->name = assignment, every name reached through a receiver other than "this"
\* is in the externally-accessed set of the current class after the line, also when
\* the line holds a this-> access elsewhere.
C8_EveryExternalAccessRecorded ==
  [][LineScanned /\ ~IsComment(LastLine(text'))
       => LET l == LastLine(text')
          IN ~class_m(l) /\ ~property_m(l) /\ ~member_assign_m(l)
               => ExternalNames(l) \subseteq
                    Get(file'.classes, current_class').external_used_properties]_vars

----------------------------------------------------------------------------
(* The whole program (Spec, FairSpec) *)

Returned == pc \in {"report", "done"}

\* every class record the program holds: those of the files kept and of the file being read
Records ==
  {ClassAt(files, p) : p \in {AllClasses(files, 1)[i] : i \in 1..Len(AllClasses(files, 1))}}
  \cup {file.classes[i] : i \in 1..Len(file.classes)}

\* C1: process_extends terminates whatever the shape of the extends graph, also when a
\* class names itself as parent or the chain enters a cycle; so the program, which
\* takes every step it can, reaches its end.
C1_Terminates == <>(pc = "done")

\* C2: in no class record, the placeholder included, is a name at the same time a key
\* of the declared properties and a key of the dynamic properties, after any line
\* scanned and after process_extends.
C2_DeclaredAndDynamicDisjoint ==
  \A c \in Records : Keys(c.properties) \cap Keys(c.dynamic_properties) = {}

----------------------------------------------------------------------------
(* process_extends, called once (SpecNamed) *)

\* the positions of the class records of fs
Positions(fs) == {AllClasses(fs, 1)[i] : i \in 1..Len(AllClasses(fs, 1))}

\* position p comes before position q in the order the files and classes were scanned
Before(p, q) == p[1] < q[1] \/ (p[1] = q[1] /\ p[2] < q[2])

\* the record scanned last under a name, None when no record has it or it is empty
LastNamed(fs, n) ==
  LET named == {p \in Positions(fs) : ClassAt(fs, p).name = n}
  IN IF n = "" \/ named = {} THEN None
     ELSE CHOOSE p \in named : \A q \in named : q = p \/ Before(q, p)

\* B extends A, B held x as a dynamic property when process_extends was called and
\* does not declare it, and record a declares x
C3_Case(b, a, x) ==
  /\ ClassAt(hist[1], b).extends # ""
  /\ ClassAt(hist[1], b).extends = ClassAt(hist[1], a).name
  /\ x \in Keys(ClassAt(hist[1], b).dynamic_properties)
  /\ x \notin Keys(ClassAt(hist[1], b).properties)
  /\ x \in Keys(ClassAt(hist[1], a).properties)

\* C3 as claimed: if B extends A, SOME scanned class named A declares x and B assigns
\* $this->x without declaring x, then after process_extends B has no dynamic x.
C3_AnyParentNamedA ==
  Returned =>
    \A b \in Positions(files) : \A a \in Positions(files) :
      \A x \in Keys(ClassAt(hist[1], b).dynamic_properties) :
        C3_Case(b, a, x) => x \notin Keys(ClassAt(files, b).dynamic_properties)

\* C3 amended: if B extends A, the class scanned LAST under the name A declares x and
\* B assigns $this->x without declaring x, then after process_extends B has no dynamic
\* x, wherever that class is scanned relative to B.
C3_LastParentNamedA ==
  Returned =>
    \A b \in Positions(files) : \A a \in Positions(files) :
      \A x \in Keys(ClassAt(hist[1], b).dynamic_properties) :
        C3_Case(b, a, x) /\ a = LastNamed(hist[1], ClassAt(hist[1], b).extends)
          => x \notin Keys(ClassAt(files, b).dynamic_properties)

\* process_extends returned; B, scanned in the first file, lost its dynamic x to a
\* class A scanned in a later file
C3_Witness ==
  /\ Returned
  /\ \E b \in Positions(files) : \E a \in Positions(files) :
       \E x \in Keys(ClassAt(hist[1], b).dynamic_properties) :
         /\ C3_Case(b, a, x)
         /\ a = LastNamed(hist[1], ClassAt(hist[1], b).extends)
         /\ b[1] < a[1]
         /\ x \notin Keys(ClassAt(files, b).dynamic_properties)

----------------------------------------------------------------------------
(* process_extends, called twice in a row (SpecTwice) *)

\* the state process_extends was called on, and the state its first call left or,
\* while that call runs, has reached
Pre == hist[1]
Now == IF Len(hist) >= 2 THEN hist[2] ELSE files

\* the first call is over with the walk of the class at p
Walked(p) ==
  \/ Len(hist) >= 2
  \/ pc \in {"extends", "advance"} /\ Before(p, php_class)

\* the classes reached from p through extends, each name resolved to the record scanned
\* last under it; the walk ends at a name no record has, and here at a record seen before
RECURSIVE Ancestors(_, _, _)
Ancestors(fs, p, seen) ==
  LET q == LastNamed(fs, ClassAt(fs, p).extends)
  IN IF q = None \/ q \in seen THEN seen ELSE Ancestors(fs, q, seen \cup {q})

RECURSIVE Acyclic(_, _, _)
Acyclic(fs, p, seen) ==
  LET q == LastNamed(fs, ClassAt(fs, p).extends)
  IN IF q = None THEN TRUE
     ELSE IF q \in seen THEN FALSE
     ELSE Acyclic(fs, q, seen \cup {q})

AncestorDeclared(fs, p) ==
  UNION {Keys(ClassAt(fs, q).properties) : q \in Ancestors(fs, p, {})}

WithoutDynamic(c) == [c EXCEPT !.dynamic_properties = <<>>]

\* C5: process_extends is idempotent: when it returns, a second call in a row leaves
\* all class records (declared and dynamic mappings, extends links, externally
\* accessed sets) as the first call left them.
C5_Idempotent == Len(hist) = 4 => hist[4] = hist[2]

\* both calls returned and the first one deleted a dynamic property
C5_Witness == Len(hist) = 4 /\ hist[2] # hist[1]

----------------------------------------------------------------------------
(* The report (SpecReport) *)

Indices(kind) == {i \in 1..Len(result) : result[i].kind = kind}

\* the names that some scanned line of some file reaches through a receiver other
\* than "this"
AccessedInTree ==
  UNION {UNION {ExternalNames(text[f][k]) :
                  k \in {j \in 1..Len(text[f]) : ~IsComment(text[f][j])}} :
           f \in 1..Len(text)}

\* C4: the declaration suggested for a dynamic property y left after resolution is
\* private exactly when no scanned line of any file holds a member access to y through
\* a receiver other than "this", and public whenever such an access exists.
C4_PrivateIffNeverAccessedOutside ==
  pc = "done" =>
    \A i \in Indices("suggest") :
      (result[i].visibility = "private") <=> (result[i].name \notin AccessedInTree)

\* the lines of file f (from 0) that belong to the class record c: after its
\* declaration, or from the top for the placeholder, up to the next class declaration
IsClassLine(l) == ~IsComment(l) /\ class_m(l)
Region(lines, c) ==
  LET from == IF c.name = "" THEN 0 ELSE c.line_nr + 1
      later == {k \in from..(Len(lines) - 1) : IsClassLine(lines[k + 1])}
      to == IF later = {} THEN Len(lines) - 1 ELSE Min(later) - 1
  IN from..to

\* the lines of the region that the scanner takes as an assignment $this->n = ...
AssignLines(lines, c, n) ==
  {k \in Region(lines, c) :
     LET l == lines[k + 1]
     IN /\ ~IsComment(l) /\ ~property_m(l)
        /\ member_assign_m(l) /\ member_assign_group1(l) = n}

\* the block of class record c of file f starts at result[i]
BlockAt(i, f, c) ==
  LET d == c.dynamic_properties
      n == Len(d)
  IN /\ result[i].kind = "header"
     /\ result[i].path = files[f].path
     /\ result[i].line = c.line_nr + 1
     /\ result[i].declaration = get_declaration(c)
     /\ i + 2 * n + 2 <= Len(result)
     /\ \A k \in 1..n :
          /\ result[i + k].kind = "dynamic"
          /\ result[i + k].name = d[k].name
          /\ AssignLines(text[f], c, d[k].name) # {}
          /\ result[i + k].line = Min(AssignLines(text[f], c, d[k].name)) + 1
          /\ k > 1 => result[i + k - 1].line < result[i + k].line
          /\ result[i + n + 1 + k].kind = "suggest"
          /\ result[i + n + 1 + k].name = d[k].name
     /\ result[i + n + 1].kind = "blank"
     /\ result[i + 2 * n + 2].kind = "blank"

HeadersOf(f, c) ==
  {i \in Indices("header") :
     result[i].path = files[f].path /\ result[i].declaration[2] = c.name}

\* C10: the dynamic-properties section reflects the state after resolution: a class
\* has a header block if and only if it still has dynamic properties; the block lists
\* each of them once, with the 1-based line of its first assignment in the class, in
\* the order first met, then one suggested declaration each in the same order; and
\* every deprecated-features block comes before every dynamic-properties block.
C10_ReportAfterResolution ==
  pc = "done" =>
    /\ \A p \in Positions(files) :
         LET c == ClassAt(files, p)
         IN IF c.dynamic_properties = <<>>
            THEN HeadersOf(p[1], c) = {}
            ELSE /\ Cardinality(HeadersOf(p[1], c)) = 1
                 /\ \A i \in HeadersOf(p[1], c) : BlockAt(i, p[1], c)
    /\ \A i \in Indices("header") :
         \E p \in Positions(files) : i \in HeadersOf(p[1], ClassAt(files, p))
    /\ Cardinality(Indices("dynamic")) = Cardinality(Indices("suggest"))
    /\ \A i \in Indices("dynamic") :
         \E h \in Indices("header") : \E p \in Positions(files) :
           /\ h \in HeadersOf(p[1], ClassAt(files, p))
           /\ h < i /\ i <= h + Len(ClassAt(files, p).dynamic_properties)
    /\ \A i \in Indices("deprecated") \cup Indices("path") :
         \A j \in Indices("header") : i < j

\* the report is written after a deprecated block; a class held two dynamic
\* properties, resolution deleted one, and the block lists the other, which is
\* assigned twice
C10_Witness ==
  /\ pc = "done"
  /\ Indices("deprecated") # {}
  /\ \E p \in Positions(files) :
       /\ Len(ClassAt(hist[1], p).dynamic_properties) = 2
       /\ Len(ClassAt(files, p).dynamic_properties) = 1
       /\ \E n \in Keys(ClassAt(files, p).dynamic_properties) :
            Cardinality(AssignLines(text[p[1]], ClassAt(files, p), n)) = 2

====
